---- MODULE Spec2Model ----
(***************************************************************************)
(* Model of sys.py: the checklist review run of main (judgment passes,     *)
(* aggregation, to_dataframe) and the precheck reconciliation              *)
(* (compute_std_id, normalize_status_equiv, precheck_rows_to_df,           *)
(* fuzzy_match, build_compare_table).                                      *)
(*                                                                         *)
(* Python strings are modelled as sequences of one-character strings, so   *)
(* that stripping, regular-expression search, string comparison and the    *)
(* difflib similarity ratio are computed character by character.  A        *)
(* non-ASCII character is written as the token "Uxxxx" of its code point   *)
(* (U7B26 U5408 is the label "compliant").                                 *)
(***************************************************************************)
EXTENDS Integers, Sequences, FiniteSets, TLC

\* ------------------------------------------------------------------ strings

Digits == {"0", "1", "2", "3", "4", "5", "6", "7", "8", "9"}

\* Whitespace characters of the model's alphabet (Python's \s and str.strip()).
WS == {" ", "\t"}

\* Letters accepted by STD_ID_PATTERN and by the sort's extract(r"([A-F])").
Letters == {"A", "B", "C", "D", "E", "F"}

\* F applied to the value of v, as a local variable holds the value of the
\* expression assigned to it: v is evaluated once, however often F uses it.
With(v, F(_)) == CHOOSE y \in {F(x) : x \in {v}} : TRUE

\* s[i:j] of Python with 1-based inclusive bounds; empty when j < i.
Sub(s, i, j) == IF j < i THEN <<>> ELSE SubSeq(s, i, j)

RECURSIVE LeadWs(_, _)
\* Number of whitespace characters at the start of s, from position i.
LeadWs(s, i) == IF i <= Len(s) /\ s[i] \in WS THEN 1 + LeadWs(s, i + 1) ELSE 0

RECURSIVE TrailWs(_, _)
\* Number of whitespace characters at the end of s, back from position i.
TrailWs(s, i) == IF i >= 1 /\ s[i] \in WS THEN 1 + TrailWs(s, i - 1) ELSE 0

\* str.strip()
Strip(s) ==
  LET l == LeadWs(s, 1)
  IN  IF l = Len(s) THEN <<>> ELSE Sub(s, l + 1, Len(s) - TrailWs(s, Len(s)))

\* re.sub(r"\s+", "", s)
RemoveWs(s) == SelectSeq(s, LAMBDA c : c \notin WS)

\* str.lower() on one character (the upper-case letters of the alphabet).
LowerChar(c) ==
  CASE c = "O" -> "o" [] c = "K" -> "k" [] c = "N" -> "n" [] c = "A" -> "a"
    [] c = "P" -> "p" [] c = "S" -> "s" [] OTHER -> c

\* str.lower()
Lower(s) == [i \in 1..Len(s) |-> LowerChar(s[i])]

\* p in s (substring test)
IsSubstr(p, s) ==
  \E i \in 1..(Len(s) - Len(p) + 1) : Sub(s, i, i + Len(p) - 1) = p

RECURSIVE DigitRun(_, _)
\* Length of the maximal run of digits of s starting at position i.
DigitRun(s, i) == IF i <= Len(s) /\ s[i] \in Digits THEN 1 + DigitRun(s, i + 1) ELSE 0

\* Unicode code point of the characters compared by the string sort keys.
CodePoint(c) ==
  CASE c = " " -> 32 [] c = "(" -> 40 [] c = ")" -> 41 [] c = "-" -> 45
    [] c = "." -> 46
    [] c = "0" -> 48 [] c = "1" -> 49 [] c = "2" -> 50 [] c = "3" -> 51
    [] c = "4" -> 52 [] c = "5" -> 53 [] c = "6" -> 54 [] c = "7" -> 55
    [] c = "8" -> 56 [] c = "9" -> 57
    [] c = "A" -> 65 [] c = "B" -> 66 [] c = "C" -> 67 [] c = "D" -> 68
    [] c = "E" -> 69 [] c = "F" -> 70 [] c = "Z" -> 90
    [] c = "x" -> 120 [] c = "y" -> 121
    [] c = "U5225" -> 21029 [] c = "U672A" -> 26410 [] c = "U8B58" -> 35672
    [] c = "UFF08" -> 65288 [] c = "UFF09" -> 65289
    [] OTHER -> 30000

RECURSIVE StrLess(_, _)
\* a < b for Python strings (code point order, a proper prefix is smaller).
StrLess(a, b) ==
  IF b = <<>> THEN FALSE
  ELSE IF a = <<>> THEN TRUE
  ELSE IF a[1] # b[1] THEN CodePoint(a[1]) < CodePoint(b[1])
  ELSE StrLess(Tail(a), Tail(b))

RECURSIVE ToIntUpTo(_, _)
\* int(s[:n]) for a string of decimal digits.
ToIntUpTo(s, n) ==
  IF n = 0 THEN 0 ELSE 10 * ToIntUpTo(s, n - 1) + (CodePoint(s[n]) - 48)

\* int(s) for a string of decimal digits.
ToInt(s) == With(s, LAMBDA t : ToIntUpTo(t, Len(t)))

RECURSIVE Pow10(_)
Pow10(n) == IF n = 0 THEN 1 ELSE 10 * Pow10(n - 1)

\* ------------------------------------------------- normalize_status_equiv

\* Status labels (string literals of the source): compliant, not-applicable,
\* not-mentioned, partially-compliant.
S_OK == <<"U7B26", "U5408">>

S_NA == <<"U4E0D", "U9069", "U7528">>

S_NONE == <<"U672A", "U63D0", "U53CA">>

S_PART == <<"U90E8", "U5206", "U7B26", "U5408">>

\* Synonyms accepted as compliant (U7B26 U5408).
CompliantSynonyms == {S_OK, <<"o", "k">>, <<"p", "a", "s", "s">>, <<"U901A", "U904E">>}

\* Synonyms accepted as not-applicable (U4E0D U9069 U7528).
NotApplicableSynonyms == {S_NA, <<"n", "a">>, <<"n", "/", "a">>}

\* Python's None where a label is expected: no string has this element.
None == <<"NoneType">>

\* Mutant of normalize_status_equiv: a label that contains the compliant
\* label counts as compliant.
normalize_status_equiv_Contains(s) ==
  IF s # None /\ IsSubstr(S_OK, Lower(RemoveWs(s))) THEN S_OK ELSE S_NONE

normalize_status_equiv(s) ==
  LET t == Lower(RemoveWs(s))
  IN  IF s = None THEN S_NONE
      ELSE IF t = <<>> THEN S_NONE
      ELSE IF t \in CompliantSynonyms THEN S_OK
      ELSE IF t \in NotApplicableSynonyms THEN S_NA
      ELSE S_NONE

\* ---------------------------------------------------------- compute_std_id

\* Least element of a non-empty set of integers.
MinOf(S) == With(S, LAMBDA T : CHOOSE i \in T : \A j \in T : i <= j)

\* SECTION_TO_LETTER in the dictionary's iteration order: the section titles
\* case-nature, current-state, security, operations, delivery, other-highlights.
SECTION_TO_LETTER ==
  << <<(<<"U6848", "U4EF6", "U6027", "U8CEA">>), "A">>,
     <<(<<"U73FE", "U6CC1", "U8AAA", "U660E">>), "B">>,
     <<(<<"U8CC7", "U5B89", "U9700", "U6C42">>), "C">>,
     <<(<<"U4F5C", "U696D", "U9700", "U6C42">>), "D">>,
     <<(<<"U7522", "U54C1", "U4EA4", "U4ED8">>), "E">>,
     <<(<<"U5176", "U4ED6", "U91CD", "U9EDE">>), "F">> >>

\* ROMAN_TO_LETTER in iteration order: the ordinals one .. six.
ROMAN_TO_LETTER ==
  << <<"U4E00", "A">>, <<"U4E8C", "B">>, <<"U4E09", "C">>,
     <<"U56DB", "D">>, <<"U4E94", "E">>, <<"U516D", "F">> >>

\* STD_ID_PATTERN.match(s): ^[A-F]\d+(?:\.\d+)?$
STD_ID_PATTERN(s) ==
  /\ Len(s) >= 2
  /\ s[1] \in Letters
  /\ LET d1 == DigitRun(s, 2)
     IN  /\ d1 >= 1
         /\ \/ 1 + d1 = Len(s)
            \/ /\ 1 + d1 < Len(s)
               /\ s[2 + d1] = "."
               /\ DigitRun(s, 3 + d1) >= 1
               /\ 2 + d1 + DigitRun(s, 3 + d1) = Len(s)

\* The letter of the first section title (in dictionary order) contained in
\* src, or "" when none is.
SectionLetter(src) ==
  LET hit == {k \in 1..Len(SECTION_TO_LETTER) : IsSubstr(SECTION_TO_LETTER[k][1], src)}
  IN  IF hit = {} THEN "" ELSE SECTION_TO_LETTER[MinOf(hit)][2]

\* The letter of the first ordinal zh (in dictionary order) with zh + U3001
\* (ideographic comma) or zh + " " contained in src, or "" when none is.
RomanLetter(src) ==
  LET hit == {k \in 1..Len(ROMAN_TO_LETTER) :
                \/ IsSubstr(<<ROMAN_TO_LETTER[k][1], "U3001">>, src)
                \/ IsSubstr(<<ROMAN_TO_LETTER[k][1], " ">>, src)}
  IN  IF hit = {} THEN "" ELSE ROMAN_TO_LETTER[MinOf(hit)][2]

\* re.search(r"-\s*(\d+)", raw_id): group 1 of the leftmost match, <<>> for None.
SearchHyphenNumber(raw_id) ==
  LET hit == {i \in 1..Len(raw_id) :
                /\ raw_id[i] = "-"
                /\ DigitRun(raw_id, i + 1 + LeadWs(raw_id, i + 1)) >= 1}
  IN  IF hit = {} THEN <<>>
      ELSE LET i == MinOf(hit)
               d == i + 1 + LeadWs(raw_id, i + 1)
           IN  Sub(raw_id, d, d + DigitRun(raw_id, d) - 1)

\* The characters of the class [U3001 \. UFF0E )] that must follow the number.
MainPunct == {"U3001", ".", "UFF0E", ")"}

\* Whether the regular expression (\d+)\s*[U3001\.UFF0E)] matches at position i.
MainMatchAt(src, i) ==
  /\ src[i] \in Digits
  /\ LET e == i + DigitRun(src, i)
         p == e + LeadWs(src, e)
     IN  p <= Len(src) /\ src[p] \in MainPunct

\* re.search(r"(\d+)\s*[...]", src): group 1 of the leftmost match, <<>> for None.
SearchMainNumber(src) ==
  LET hit == {i \in 1..Len(src) : MainMatchAt(src, i)}
  IN  IF hit = {} THEN <<>>
      ELSE LET i == MinOf(hit) IN Sub(src, i, i + DigitRun(src, i) - 1)

\* re.search(r"\((\d+)\)", src): group 1 of the leftmost match, <<>> for None.
SearchSubNumber(src) ==
  LET hit == {i \in 1..Len(src) :
                /\ src[i] = "("
                /\ DigitRun(src, i + 1) >= 1
                /\ i + 1 + DigitRun(src, i + 1) <= Len(src)
                /\ src[i + 1 + DigitRun(src, i + 1)] = ")"}
  IN  IF hit = {} THEN <<>>
      ELSE LET i == MinOf(hit) IN Sub(src, i + 1, i + DigitRun(src, i + 1))

\* Mutant of compute_std_id: no fast path for a raw_id that is canonical.
compute_std_id_NoFastPath(raw_id, item) ==
  LET src == Strip(raw_id \o <<" ">> \o item)
      sec1 == SectionLetter(src)
      sec_letter == IF sec1 # "" THEN sec1 ELSE RomanLetter(src)
      m_hyphen == SearchHyphenNumber(raw_id)
      n1 == IF m_hyphen # <<>> THEN m_hyphen ELSE SearchMainNumber(src)
      n2 == SearchSubNumber(src)
  IN  IF sec_letter # "" /\ n1 # <<>>
      THEN <<sec_letter>> \o n1 \o (IF n2 # <<>> THEN <<".">> \o n2 ELSE <<>>)
      ELSE <<>>

\* Mutant of compute_std_id: a section letter is returned without a major
\* number.
compute_std_id_LetterOnly(raw_id, item) ==
  LET s == Strip(raw_id)
      src == Strip(raw_id \o <<" ">> \o item)
      sec1 == SectionLetter(src)
      sec_letter == IF sec1 # "" THEN sec1 ELSE RomanLetter(src)
      m_hyphen == SearchHyphenNumber(raw_id)
      n1 == IF m_hyphen # <<>> THEN m_hyphen ELSE SearchMainNumber(src)
      n2 == SearchSubNumber(src)
  IN  IF STD_ID_PATTERN(s) THEN s
      ELSE IF sec_letter # ""
           THEN <<sec_letter>> \o n1 \o (IF n2 # <<>> THEN <<".">> \o n2 ELSE <<>>)
           ELSE <<>>

compute_std_id(raw_id, item) ==
  LET s == Strip(raw_id)
      src == Strip(raw_id \o <<" ">> \o item)
      sec1 == SectionLetter(src)
      sec_letter == IF sec1 # "" THEN sec1 ELSE RomanLetter(src)
      m_hyphen == SearchHyphenNumber(raw_id)
      n1 == IF m_hyphen # <<>> THEN m_hyphen ELSE SearchMainNumber(src)
      n2 == SearchSubNumber(src)
  IN  IF STD_ID_PATTERN(s) THEN s
      ELSE IF sec_letter # "" /\ n1 # <<>>
           THEN <<sec_letter>> \o n1 \o (IF n2 # <<>> THEN <<".">> \o n2 ELSE <<>>)
           ELSE <<>>

\* ------------------------------------------------------------- fuzzy_match

RECURSIVE MatchRun(_, _, _, _, _, _)
\* Length of the longest common run a[i..] = b[j..] inside a[..ahi], b[..bhi].
MatchRun(a, b, i, j, ahi, bhi) ==
  IF i <= ahi /\ j <= bhi /\ a[i] = b[j]
  THEN 1 + MatchRun(a, b, i + 1, j + 1, ahi, bhi)
  ELSE 0

\* Greatest element of a non-empty set of integers.
MaxOf(S) == With(S, LAMBDA T : CHOOSE i \in T : \A j \in T : i >= j)

\* SequenceMatcher.find_longest_match(alo, ahi, blo, bhi) without junk (no
\* isjunk, and autojunk only acts on strings of 200 characters or more): the
\* block <<i, j, k>> with the greatest k, of those the least i, of those the
\* least j; <<alo, blo, 0>> when nothing matches.
find_longest_match(a, b, alo, ahi, blo, bhi) ==
  IF ahi < alo \/ bhi < blo THEN <<alo, blo, 0>>
  ELSE With(MaxOf({MatchRun(a, b, i, j, ahi, bhi) : i \in alo..ahi, j \in blo..bhi}),
            LAMBDA k :
              IF k = 0 THEN <<alo, blo, 0>>
              ELSE With(MinOf({x \in alo..ahi :
                                 \E y \in blo..bhi : MatchRun(a, b, x, y, ahi, bhi) = k}),
                        LAMBDA i :
                          <<i, MinOf({y \in blo..bhi : MatchRun(a, b, i, y, ahi, bhi) = k}), k>>))

RECURSIVE MatchingTotal(_, _, _, _, _, _)
\* Sum of the sizes of SequenceMatcher.get_matching_blocks(): the longest
\* block, then recursively the pieces to its left and to its right.
MatchingTotal(a, b, alo, ahi, blo, bhi) ==
  With(find_longest_match(a, b, alo, ahi, blo, bhi),
       LAMBDA m :
         IF m[3] = 0 THEN 0
         ELSE m[3] + MatchingTotal(a, b, alo, m[1] - 1, blo, m[2] - 1)
                   + MatchingTotal(a, b, m[1] + m[3], ahi, m[2] + m[3], bhi))

\* SequenceMatcher(a=query, b=cand).ratio() = 2.0*M/T as the fraction
\* <<2*M, T>>; 1.0 (that is <<1, 1>>) when both strings are empty.
Ratio(query, cand) ==
  With(<<query, cand>>,
       LAMBDA ab :
         LET T == Len(ab[1]) + Len(ab[2])
         IN  IF T = 0 THEN <<1, 1>>
             ELSE <<2 * MatchingTotal(ab[1], ab[2], 1, Len(ab[1]), 1, Len(ab[2])), T>>)

\* r > s for fractions with positive denominators.
RatioGreater(r, s) == r[1] * s[2] > s[1] * r[2]

RECURSIVE FuzzyScan(_, _, _, _)
\* The loop of fuzzy_match: best is <<best_id, best_ratio>>.
FuzzyScan(best_of, query, k, best) ==
  IF k > Len(best_of) THEN best
  ELSE With(Ratio(query, best_of[k]),
            LAMBDA r :
              With(IF RatioGreater(r, best[2]) THEN <<best_of[k], r>> ELSE best,
                   LAMBDA b : FuzzyScan(best_of, query, k + 1, b)))

\* fuzzy_match(best_of, query) -> <<best_id, best_ratio>>, from ("", 0.0).
fuzzy_match(best_of, query) ==
  With(<<best_of, query>>, LAMBDA bq : FuzzyScan(bq[1], bq[2], 1, << <<>>, <<0, 1>> >>))

\* --------------------------------------- the sort of to_dataframe / compare

\* code_order.get(letter), 9 for a missing letter (fillna(9)).
LetterRank(c) ==
  CASE c = "A" -> 0 [] c = "B" -> 1 [] c = "C" -> 2 [] c = "D" -> 3
    [] c = "E" -> 4 [] c = "F" -> 5 [] OTHER -> 9

\* str.extract(r"([A-F])") then map(code_order).fillna(9): the rank of the
\* first letter A..F occurring anywhere in the id.
MainOrder(id) ==
  LET hit == {i \in 1..Len(id) : id[i] \in Letters}
  IN  IF hit = {} THEN 9 ELSE LetterRank(id[MinOf(hit)])

\* str.extract(r"(\d+(?:\.\d+)?)"): the first run of digits of the id, with a
\* following "." and digits when present; <<>> when the id has no digit.
ExtractNumber(id) ==
  LET hit == {i \in 1..Len(id) : id[i] \in Digits}
  IN  IF hit = {} THEN <<>>
      ELSE LET i == MinOf(hit)
               e == i + DigitRun(id, i)
               f == IF e <= Len(id) /\ id[e] = "." THEN DigitRun(id, e + 1) ELSE 0
           IN  IF f >= 1 THEN Sub(id, i, e + f) ELSE Sub(id, i, e - 1)

\* pd.to_numeric of the extracted text: the decimal number as the fraction
\* <<numerator, denominator>>, so "2.10" is 210/100 = 2.1; <<0, 0>> is NaN.
SubCodeValue(id) ==
  With(ExtractNumber(id),
       LAMBDA t :
         LET dot == {i \in 1..Len(t) : t[i] = "."}
         IN  IF t = <<>> THEN <<0, 0>>
             ELSE IF dot = {} THEN <<ToInt(t), 1>>
             ELSE LET d == MinOf(dot)
                      frac == Sub(t, d + 1, Len(t))
                  IN  <<ToInt(Sub(t, 1, d - 1)) * Pow10(Len(frac)) + ToInt(frac),
                        Pow10(Len(frac))>>)

\* Whether the row with id a sorts strictly before the row with id b under
\* sort_values([main order, sub-code value, id]): NaN sub-codes go last.
SortKeyLess(a, b) ==
  IF MainOrder(a) # MainOrder(b) THEN MainOrder(a) < MainOrder(b)
  ELSE With(<<SubCodeValue(a), SubCodeValue(b)>>,
            LAMBDA v :
              LET va == v[1]
                  vb == v[2]
              IN  IF va[2] = 0 /\ vb[2] = 0 THEN StrLess(a, b)
                  ELSE IF va[2] = 0 THEN FALSE
                  ELSE IF vb[2] = 0 THEN TRUE
                  ELSE IF va[1] * vb[2] # vb[1] * va[2] THEN va[1] * vb[2] < vb[1] * va[2]
                  ELSE StrLess(a, b))

\* The sorted sequence s with row r inserted after every row that does not
\* sort strictly after it (stable).
InsertRow(s, r) ==
  With({i \in 1..Len(s) : SortKeyLess(r.id, s[i].id)},
       LAMBDA later :
         LET at == IF later = {} THEN Len(s) + 1 ELSE MinOf(later)
         IN  Sub(s, 1, at - 1) \o <<r>> \o Sub(s, at, Len(s)))

RECURSIVE SortRows(_)
\* sort_values(..., kind="mergesort"): the stable sort of rows by their ids.
SortRows(rows) ==
  IF rows = <<>> THEN <<>>
  ELSE With(<<SortRows(Sub(rows, 1, Len(rows) - 1)), rows[Len(rows)]>>,
            LAMBDA sr : InsertRow(sr[1], sr[2]))

\* ------------------------------------------------------------ to_dataframe

\* A value of the "evidence" field of a judgment record: kind is "list",
\* "dict" (an object, which iterates over its keys), "null" or "absent" (key
\* not given); elems are the kinds of the things iterating over it yields.
EvidenceList(elems) == [kind |-> "list", elems |-> elems]

\* Whether evaluating e.get(...) for e in r.get('evidence', []) raises: the
\* value is not iterable (TypeError) or yields something that is not a dict
\* (AttributeError).  An absent key iterates over the default [].
EvidenceRaises(ev) ==
  \/ ev.kind = "null"
  \/ \E i \in 1..Len(ev.elems) : ev.elems[i] # "dict"

\* Whether to_dataframe(results) raises (the evidence loop runs before the
\* try block that guards the sort).
to_dataframe_raises(results) ==
  \E i \in 1..Len(results) : EvidenceRaises(results[i].evidence)

\* The table of to_dataframe: one row per result, sorted.
to_dataframe(results) ==
  SortRows([i \in 1..Len(results) |->
             [category |-> results[i].category,
              id |-> results[i].id,
              item |-> results[i].item,
              compliance |-> results[i].compliance,
              recommendation |-> results[i].recommendation]])

\* ----------------------------------------------------- precheck_rows_to_df

\* The id of a precheck row: the std_id the extraction gave when it is not
\* empty, else compute_std_id(raw_id, item).
PrecheckStdId(r) ==
  IF r.std_id # <<>> THEN r.std_id ELSE compute_std_id(r.raw_id, r.item)

\* The precheck table: id is the column U7DE8 U865F (number), status the
\* column "precheck judgment" (raw label), peq the hidden normalized status.
precheck_rows_to_df(rows) ==
  [i \in 1..Len(rows) |->
     [id |-> PrecheckStdId(rows[i]),
      item |-> rows[i].item,
      status |-> rows[i].status,
      biz_ref_note |-> rows[i].biz_ref_note,
      peq |-> normalize_status_equiv(rows[i].status),
      raw_id |-> rows[i].raw_id]]

\* ----------------------------------------------------- build_compare_table

\* Values of the column U5DEE U7570 U5224 U5B9A (difference verdict):
\* consistent (U4E00 U81F4), inconsistent (U4E0D U4E00 U81F4),
\* extra-in-precheck (U9810 U5BE9 U591A U51FA), extra-in-system
\* (U7CFB U7D71 U591A U51FA).
DIFF_SAME == "U4E00 U81F4"

DIFF_DIFFERENT == "U4E0D U4E00 U81F4"

DIFF_PRE_EXTRA == "U9810 U5BE9 U591A U51FA"

DIFF_SYS_EXTRA == "U7CFB U7D71 U591A U51FA"

\* The literal "(unrecognized)" put in the id column of an unmatched row
\* whose id is empty, and "(no counterpart)" put in its system result.
UNRECOGNIZED == <<"UFF08", "U672A", "U8B58", "U5225", "UFF09">>

NO_COUNTERPART == <<"UFF08", "U7121", "U5C0D", "U61C9", "UFF09">>

\* The fixed explanations of the two kinds of extra rows.
MSG_PRE_EXTRA == <<"msg:extra-in-precheck">>

MSG_SYS_EXTRA == <<"msg:extra-in-system">>

\* The acceptance threshold 0.85 of the fuzzy match as FuzzyNum / FuzzyDen.
FuzzyNum == 85

FuzzyDen == 100

RECURSIVE SysKeys(_)
\* list(sys_idx.keys()): the stripped non-empty ids of sys_df, each once, in
\* the order of their first row.
SysKeys(sys_df) ==
  IF sys_df = <<>> THEN <<>>
  ELSE With(<<SysKeys(Sub(sys_df, 1, Len(sys_df) - 1)), Strip(sys_df[Len(sys_df)].id)>>,
            LAMBDA fr :
              LET front == fr[1]
                  rid == fr[2]
              IN  IF rid = <<>> \/ \E i \in 1..Len(front) : front[i] = rid
                  THEN front ELSE Append(front, rid))

\* sys_idx[rid]: the last row of sys_df whose stripped id is rid.
SysIdx(sys_df, rid) ==
  sys_df[MaxOf({i \in 1..Len(sys_df) : Strip(sys_df[i].id) = rid})]

InKeys(sys_df, rid) == \E i \in 1..Len(sys_df) : Strip(sys_df[i].id) = rid

\* Mutant of AcceptRatio: best_ratio > 0.85.
AcceptRatio_Strict(r) == r[1] * FuzzyDen > FuzzyNum * r[2]

\* best_ratio >= 0.85
AcceptRatio(r) == r[1] * FuzzyDen >= FuzzyNum * r[2]

\* pid or pitem: the query of the fuzzy match.
FuzzyQuery(pid, pitem) == IF pid # <<>> THEN pid ELSE pitem

\* matched_id of a precheck row, <<>> when the row is not matched: the id
\* itself when it is a key of sys_idx, else the best fuzzy candidate when its
\* ratio is accepted.
MatchedId(sys_df, prow) ==
  LET pid == Strip(prow.id)
  IN  IF pid # <<>> /\ InKeys(sys_df, pid) THEN pid
      ELSE With(fuzzy_match(SysKeys(sys_df), FuzzyQuery(pid, prow.item)),
                LAMBDA best :
                  IF AcceptRatio(best[2]) /\ best[1] # <<>> /\ InKeys(sys_df, best[1])
                  THEN best[1]
                  ELSE <<>>)

\* Mutant of Verdict: A0 goes through the normalized status like every id.
Verdict_NoA0Case(matched_id, pori, peq, compliance) ==
  IF compliance = peq THEN DIFF_SAME ELSE DIFF_DIFFERENT

\* Mutant of Verdict: ids other than A0 compare the raw label.
Verdict_RawLabel(matched_id, pori, peq, compliance) ==
  IF matched_id = <<"A", "0">>
  THEN (IF Strip(pori) = Strip(compliance) THEN DIFF_SAME ELSE DIFF_DIFFERENT)
  ELSE (IF compliance = pori THEN DIFF_SAME ELSE DIFF_DIFFERENT)

\* The verdict of a matched row: the reserved id A0 compares the raw label
\* with the system value literally (both stripped); every other id compares
\* the normalized precheck status with the system value.
Verdict(matched_id, pori, peq, compliance) ==
  IF matched_id = <<"A", "0">>
  THEN (IF Strip(pori) = Strip(compliance) THEN DIFF_SAME ELSE DIFF_DIFFERENT)
  ELSE (IF compliance = peq THEN DIFF_SAME ELSE DIFF_DIFFERENT)

\* The output row of one precheck row (one iteration of the forward sweep).
ForwardRow(sys_df, prow) ==
  With(MatchedId(sys_df, prow), LAMBDA matched_id :
  LET pid == Strip(prow.id)
  IN  IF matched_id # <<>>
      THEN LET matched == SysIdx(sys_df, matched_id)
               diff == Verdict(matched_id, prow.status, prow.peq, matched.compliance)
           IN  [category |-> matched.category,
                id |-> matched_id,
                item |-> matched.item,
                pori |-> prow.status,
                peq |-> prow.peq,
                sysres |-> matched.compliance,
                diff |-> diff,
                explain |-> IF diff = DIFF_DIFFERENT THEN matched.recommendation ELSE <<>>,
                note |-> prow.biz_ref_note]
      ELSE [category |-> <<>>,
            id |-> IF pid # <<>> THEN pid ELSE UNRECOGNIZED,
            item |-> prow.item,
            pori |-> prow.status,
            peq |-> IF prow.peq # <<>> THEN prow.peq ELSE S_NONE,
            sysres |-> NO_COUNTERPART,
            diff |-> DIFF_PRE_EXTRA,
            explain |-> MSG_PRE_EXTRA,
            note |-> prow.biz_ref_note])

\* Mutant of ForwardSweep: a precheck row without a match gets no row.
ForwardSweep_SkipsUnmatched(sys_df, pre_df) ==
  SelectSeq([k \in 1..Len(pre_df) |-> ForwardRow(sys_df, pre_df[k])],
            LAMBDA row : row.diff # DIFF_PRE_EXTRA)

\* The forward sweep: one output row per precheck row, in order.
ForwardSweep(sys_df, pre_df) ==
  [k \in 1..Len(pre_df) |-> ForwardRow(sys_df, pre_df[k])]

\* pre_ids: the stripped non-empty ids of the precheck table.
PreIds(pre_df) ==
  {Strip(pre_df[k].id) : k \in 1..Len(pre_df)} \ {<<>>}

\* Whether the reverse sweep emits an extra-in-system row for srow.
ReverseEmits(srow, pre_df) ==
  Strip(srow.id) # <<>> /\ Strip(srow.id) \notin PreIds(pre_df)

\* The extra-in-system row of a system row.
ReverseRow(srow) ==
  [category |-> srow.category,
   id |-> srow.id,
   item |-> srow.item,
   pori |-> <<>>,
   peq |-> S_NONE,
   sysres |-> srow.compliance,
   diff |-> DIFF_SYS_EXTRA,
   explain |-> MSG_SYS_EXTRA,
   note |-> <<>>]

\* The reverse sweep: the rows of the system records it emits, in order.
ReverseSweep(sys_df, pre_df) ==
  LET kept == SelectSeq(sys_df, LAMBDA srow : ReverseEmits(srow, pre_df))
  IN  [k \in 1..Len(kept) |-> ReverseRow(kept[k])]

build_compare_table(sys_df, pre_df) ==
  SortRows(ForwardSweep(sys_df, pre_df) \o ReverseSweep(sys_df, pre_df))

\* ================================================= reconciliation harness

\* A judgment record as main stores it in all_results.
Result(id, category, item, compliance, evidence, recommendation) ==
  [id |-> id, category |-> category, item |-> item, compliance |-> compliance,
   evidence |-> evidence, recommendation |-> recommendation]

\* A system record with the given id and compliance value.
SysRecord(id, compliance) ==
  Result(id, <<id[1]>>, <<"i">> \o id, compliance, EvidenceList(<<>>), <<"r">> \o id)

\* Case-type labels of A0: development (U958B U767C U5EFA U7F6E) and
\* maintenance (U7CFB U7D71 U7DAD U904B).
CASE_DEV == <<"U958B", "U767C", "U5EFA", "U7F6E">>

CASE_OPS == <<"U7CFB", "U7D71", "U7DAD", "U904B">>

\* Section title "current state" (U73FE U6CC1 U8AAA U660E).
SEC_B == <<"U73FE", "U6CC1", "U8AAA", "U660E">>

\* Length of the long system id used for the threshold boundary: with a
\* query that contains the id and has QueryPad more characters the ratio is
\* 2*LongIdLen / (2*LongIdLen + QueryPad) = 34/40 = 0.85 exactly.
LongIdLen == 17

QueryPad == 6

\* "A1" followed by characters "x", LongIdLen characters long.
LongId == [i \in 1..LongIdLen |-> IF i = 1 THEN "A" ELSE IF i = 2 THEN "1" ELSE "x"]

\* LongId followed by QueryPad characters "y".
LongQuery == LongId \o [i \in 1..QueryPad |-> "y"]

\* The system result lists the harness draws from (the input of to_dataframe).
SysResults ==
  { << SysRecord(<<"A", "1">>, S_OK),
       SysRecord(<<"B", "1">>, S_NONE),
       SysRecord(<<"C", "1">>, S_NA) >>,
    << SysRecord(<<"A", "2">>, S_PART),
       SysRecord(<<"A", "1", "0">>, S_NONE),
       SysRecord(<<"A", "0">>, CASE_DEV \o <<" ">>),
       SysRecord(<<"A", "1", ".", "5">>, S_NA),
       SysRecord(<<"D", "1", "0">>, S_OK) >>,
    << SysRecord(<<"A", "2", ".", "1", "0">>, S_NA),
       SysRecord(LongId, S_OK),
       SysRecord(<<"A", "2", ".", "9">>, S_OK) >> }

\* A parsed precheck row (parse_precheck_json) without its page note.
PreRow(raw_id, item, status, std_id) ==
  [raw_id |-> raw_id, item |-> item, status |-> status, std_id |-> std_id,
   biz_ref_note |-> <<>>]

\* The precheck rows the harness draws from.
PreRowChoices ==
  { PreRow(<<"A", "1">>, <<"x">>, S_OK, <<>>),
    PreRow(<<>>, SEC_B \o <<" ", "1">>, <<>>, <<>>),
    PreRow(SEC_B \o <<"-", "1", ".">>, <<"x">>, <<>>, <<>>),
    PreRow(<<"A", "0">>, <<"x">>, CASE_DEV, <<"A", "0">>),
    PreRow(<<"A", "0">>, <<"x">>, CASE_OPS, <<"A", "0">>),
    PreRow(<<>>, <<"x">>, <<"O", "K">>, <<"D", "1", "0", "0">>),
    PreRow(<<"D", "1">>, <<"x">>, <<>>, <<>>),
    PreRow(<<>>, LongQuery, S_OK, <<>>),
    PreRow(<<"A", "2", ".", "1", "0">>, <<"x">>, S_NA, <<>>),
    PreRow(<<"A", "2">>, <<"x">>, S_PART, <<>>),
    PreRow(SEC_B \o <<"-", "1">>, <<"x">>, S_OK, SEC_B \o <<"-", "1">>),
    PreRow(<<"D", "1", "0", ")">>, <<"x">>, S_OK, <<>>) }

\* Greatest number of rows of a precheck table.
MaxPre == 2

\* The page note given to the k-th precheck row ("p1", "p2", ...).
PageNote(k) == <<"p", CHOOSE c \in Digits : CodePoint(c) - 48 = k>>

VARIABLES
  cpc,          \* position of the harness: idle, input, sys, pre, done
  sys_results,  \* the results handed to to_dataframe
  pre_rows,     \* the parsed precheck rows handed to precheck_rows_to_df
  sys_df,       \* to_dataframe(sys_results)
  pre_df,       \* precheck_rows_to_df(pre_rows)
  cmp_df,       \* build_compare_table(sys_df, pre_df)
  pc,           \* position of main: idle, start, judging, done, aborted
  mode,         \* the review mode chosen: one, batch, item ("" before)
  groups,       \* main's groups (one-shot and batch modes)
  items_ordered,\* main's items_ordered (per-item mode)
  bi,           \* index of the next group or item to judge
  arr,          \* the parsed response of the last judgment pass
  cur_items,    \* the checklist items handed to the last judgment pass
  normalized,   \* the records the last judgment pass added to all_results
  all_results,  \* main's all_results
  df            \* main's result table

cvars == <<cpc, sys_results, pre_rows, sys_df, pre_df, cmp_df>>

mvars == <<pc, mode, groups, items_ordered, bi, arr, cur_items, normalized, all_results, df>>

VARIABLES
  fpc,          \* position of a function call: idle, label, normalized, ids, computed, again
  in_label,     \* the label handed to normalize_status_equiv
  in_raw_id,    \* the raw_id handed to compute_std_id
  in_item,      \* the item text handed to compute_std_id
  ret,          \* the value the call returned
  ret2          \* compute_std_id(ret, in_item), the call repeated on its result

fvars == <<fpc, in_label, in_raw_id, in_item, ret, ret2>>

vars == <<cvars, mvars, fvars>>

\* No function call runs.
FunIdle ==
  /\ fpc = "idle"
  /\ in_label = <<>>
  /\ in_raw_id = <<>>
  /\ in_item = <<>>
  /\ ret = <<>>
  /\ ret2 = <<>>

\* The harness does not run.
CompareIdle ==
  /\ cpc = "idle"
  /\ sys_results = <<>>
  /\ pre_rows = <<>>
  /\ sys_df = <<>>
  /\ pre_df = <<>>
  /\ cmp_df = <<>>

\* The review run does not run.
MainIdle ==
  /\ pc = "idle"
  /\ mode = ""
  /\ groups = <<>>
  /\ items_ordered = <<>>
  /\ bi = 1
  /\ arr = <<>>
  /\ cur_items = <<>>
  /\ normalized = <<>>
  /\ all_results = <<>>
  /\ df = <<>>

CompareInit ==
  /\ cpc = "input"
  /\ sys_results \in SysResults
  /\ \E n \in 0..MaxPre : \E f \in [1..n -> PreRowChoices] :
       pre_rows = [k \in 1..n |-> [f[k] EXCEPT !.biz_ref_note = PageNote(k)]]
  /\ sys_df = <<>>
  /\ pre_df = <<>>
  /\ cmp_df = <<>>
  /\ MainIdle
  /\ FunIdle

\* df = to_dataframe(all_results), applied to the harness's results.
HToDataframe ==
  /\ cpc = "input"
  /\ sys_df' = to_dataframe(sys_results)
  /\ cpc' = "sys"
  /\ UNCHANGED <<sys_results, pre_rows, pre_df, cmp_df, mvars, fvars>>

\* pre_df = precheck_rows_to_df(rows)
HPrecheckRowsToDf ==
  /\ cpc = "sys"
  /\ pre_df' = precheck_rows_to_df(pre_rows)
  /\ cpc' = "pre"
  /\ UNCHANGED <<sys_results, pre_rows, sys_df, cmp_df, mvars, fvars>>

\* cmp_df = build_compare_table(sys_df=df, pre_df=pre_df)
HBuildCompareTable ==
  /\ cpc = "pre"
  /\ cmp_df' = build_compare_table(sys_df, pre_df)
  /\ cpc' = "done"
  /\ UNCHANGED <<sys_results, pre_rows, sys_df, pre_df, mvars, fvars>>

CompareNext == HToDataframe \/ HPrecheckRowsToDf \/ HBuildCompareTable

SpecCompare == CompareInit /\ [][CompareNext]_vars

\* ------------------------------------------- claims on build_compare_table

\* A row that pairs a precheck record with a system record.
IsMatchedRow(row) == row.diff \in {DIFF_SAME, DIFF_DIFFERENT}

\* The indexes of the rows of table t that satisfy P.
RowsWhere(t, P(_)) == {i \in 1..Len(t) : P(t[i])}

\* The rows of cmp_df that present the system record srow: matched with it,
\* or its extra-in-system row.
SystemRowsOf(srow) ==
  RowsWhere(cmp_df, LAMBDA row : /\ Strip(row.id) = Strip(srow.id)
                                 /\ row.diff \in {DIFF_SAME, DIFF_DIFFERENT, DIFF_SYS_EXTRA})

\* The rows of cmp_df produced by the precheck record prow (its page note).
PrecheckRowsOf(prow) ==
  RowsWhere(cmp_df, LAMBDA row : row.note = prow.biz_ref_note)

\* C2: every system record appears in exactly one output row, either one
\* matched row or one extra-in-system row, never in both nor in two matched
\* rows.
C2_SystemRecordOnce ==
  cpc = "done" =>
    \A s \in 1..Len(sys_df) : Cardinality(SystemRowsOf(sys_df[s])) = 1

\* C3: every precheck record produces exactly one output row, which is a
\* matched row or an extra-in-precheck row carrying the record's own status;
\* no other row of these kinds exists.
C3_PrecheckRecordOnce ==
  cpc = "done" =>
    /\ \A k \in 1..Len(pre_df) :
         /\ Cardinality(PrecheckRowsOf(pre_df[k])) = 1
         /\ \A i \in PrecheckRowsOf(pre_df[k]) :
              /\ cmp_df[i].diff \in {DIFF_SAME, DIFF_DIFFERENT, DIFF_PRE_EXTRA}
              /\ cmp_df[i].pori = pre_df[k].status
    /\ Cardinality(RowsWhere(cmp_df, LAMBDA row : row.diff # DIFF_SYS_EXTRA)) = Len(pre_df)

\* C3 witness: a finished comparison of two precheck records, one matched
\* and one extra-in-precheck.
C3_Witness ==
  /\ cpc = "done"
  /\ Len(pre_df) = 2
  /\ \E i, j \in 1..Len(cmp_df) :
       /\ IsMatchedRow(cmp_df[i]) /\ cmp_df[i].note = pre_df[1].biz_ref_note
       /\ cmp_df[j].diff = DIFF_PRE_EXTRA /\ cmp_df[j].note = pre_df[2].biz_ref_note

\* C4: the reverse sweep emits an extra-in-system row for a system record if
\* and only if no precheck record was matched to it (by exact lookup or by an
\* accepted fuzzy match).
C4_ExtraIffNotConsumed ==
  cpc = "done" =>
    \A s \in 1..Len(sys_df) :
      (\E i \in 1..Len(cmp_df) : /\ cmp_df[i].diff = DIFF_SYS_EXTRA
                                 /\ Strip(cmp_df[i].id) = Strip(sys_df[s].id))
      <=> ~(\E i \in 1..Len(cmp_df) : /\ IsMatchedRow(cmp_df[i])
                                      /\ cmp_df[i].id = Strip(sys_df[s].id))

\* The end-to-end scenario of C5: system A1 compliant, B1 not-mentioned, C1
\* not-applicable; precheck {raw_id "A1", compliant} and {raw_id "", item
\* "current-state 1", status "", no std_id}.
C5_Scenario ==
  /\ sys_results = << SysRecord(<<"A", "1">>, S_OK),
                      SysRecord(<<"B", "1">>, S_NONE),
                      SysRecord(<<"C", "1">>, S_NA) >>
  /\ Len(pre_rows) = 2
  /\ pre_rows[1].raw_id = <<"A", "1">> /\ pre_rows[1].status = S_OK
  /\ pre_rows[1].std_id = <<>>
  /\ pre_rows[2].raw_id = <<>> /\ pre_rows[2].item = SEC_B \o <<" ", "1">>
  /\ pre_rows[2].status = <<>> /\ pre_rows[2].std_id = <<>>

\* C5: in the scenario the comparison yields exactly A1 consistent, B1
\* consistent (normalized status not-mentioned) and C1 extra-in-system.
C5_EndToEnd ==
  (cpc = "done" /\ C5_Scenario) =>
    /\ Len(cmp_df) = 3
    /\ cmp_df[1].id = <<"A", "1">> /\ cmp_df[1].diff = DIFF_SAME
    /\ cmp_df[2].id = <<"B", "1">> /\ cmp_df[2].diff = DIFF_SAME
    /\ cmp_df[2].peq = S_NONE
    /\ cmp_df[3].id = <<"C", "1">> /\ cmp_df[3].diff = DIFF_SYS_EXTRA

\* C6: a row matched to the system record A0 is consistent if and only if
\* the raw precheck label equals the system value literally after trimming.
C6_A0Literal ==
  cpc = "done" =>
    \A i \in 1..Len(cmp_df) :
      (IsMatchedRow(cmp_df[i]) /\ cmp_df[i].id = <<"A", "0">>) =>
        ((cmp_df[i].diff = DIFF_SAME) <=> (Strip(cmp_df[i].pori) = Strip(cmp_df[i].sysres)))

\* C6 witness: an A0 row that is consistent although the normalized status
\* differs from the system value, beside an A0 row that is inconsistent.
C6_Witness ==
  /\ cpc = "done"
  /\ \E i, j \in 1..Len(cmp_df) :
       /\ cmp_df[i].id = <<"A", "0">> /\ cmp_df[i].diff = DIFF_SAME
       /\ normalize_status_equiv(cmp_df[i].pori) # cmp_df[i].sysres
       /\ cmp_df[j].id = <<"A", "0">> /\ cmp_df[j].diff = DIFF_DIFFERENT

\* C7: a row matched to a system record other than A0 is consistent if and
\* only if the normalized precheck status equals the system value.
C7_NormalizedVerdict ==
  cpc = "done" =>
    \A i \in 1..Len(cmp_df) :
      (IsMatchedRow(cmp_df[i]) /\ cmp_df[i].id # <<"A", "0">>) =>
        /\ normalize_status_equiv(cmp_df[i].pori) \in {S_OK, S_NA, S_NONE}
        /\ (cmp_df[i].diff = DIFF_SAME)
             <=> (normalize_status_equiv(cmp_df[i].pori) = cmp_df[i].sysres)

\* C7 witness: a consistent row whose raw label differs from the system
\* value, beside an inconsistent row whose raw label equals it.
C7_Witness ==
  /\ cpc = "done"
  /\ \E i, j \in 1..Len(cmp_df) :
       /\ cmp_df[i].id # <<"A", "0">> /\ cmp_df[i].diff = DIFF_SAME
       /\ cmp_df[i].pori # cmp_df[i].sysres
       /\ cmp_df[j].id # <<"A", "0">> /\ cmp_df[j].diff = DIFF_DIFFERENT
       /\ cmp_df[j].pori = cmp_df[j].sysres

\* Whether the exact lookup of the precheck row fails.
ExactLookupFails(prow) == Strip(prow.id) = <<>> \/ ~InKeys(sys_df, Strip(prow.id))

\* Whether some system id has a similarity ratio of at least 17/20 = 0.85
\* with the query of the precheck row.
SomeRatioAtLeastThreshold(prow) ==
  \E s \in 1..Len(sys_df) :
    LET r == Ratio(FuzzyQuery(Strip(prow.id), prow.item), Strip(sys_df[s].id))
    IN  20 * r[1] >= 17 * r[2]

\* C8: when exact lookup fails the record is matched if and only if the best
\* similarity ratio is at least 0.85; below it the verdict is
\* extra-in-precheck.
C8_FuzzyThreshold ==
  cpc = "done" =>
    \A k \in 1..Len(pre_df) :
      ExactLookupFails(pre_df[k]) =>
        \A i \in PrecheckRowsOf(pre_df[k]) :
          /\ SomeRatioAtLeastThreshold(pre_df[k]) => IsMatchedRow(cmp_df[i])
          /\ ~SomeRatioAtLeastThreshold(pre_df[k]) => cmp_df[i].diff = DIFF_PRE_EXTRA

\* C8 witness: a record whose exact lookup fails and whose best ratio is
\* exactly 0.85 is matched, beside a record rejected below the threshold.
C8_Witness ==
  /\ cpc = "done"
  /\ \E k, m \in 1..Len(pre_df) :
       /\ ExactLookupFails(pre_df[k])
       /\ LET best == fuzzy_match(SysKeys(sys_df),
                                   FuzzyQuery(Strip(pre_df[k].id), pre_df[k].item))[2]
          IN  20 * best[1] = 17 * best[2]
       /\ \E i \in PrecheckRowsOf(pre_df[k]) : IsMatchedRow(cmp_df[i])
       /\ ExactLookupFails(pre_df[m])
       /\ Strip(pre_df[m].id) # <<>>
       /\ \E i \in PrecheckRowsOf(pre_df[m]) : cmp_df[i].diff = DIFF_PRE_EXTRA

\* The key (letter rank, major as an integer, minor as an integer) of a
\* canonical id; an id without minor has minor 0.
CanonKey(id) ==
  LET d1 == DigitRun(id, 2)
  IN  <<LetterRank(id[1]), ToInt(Sub(id, 2, 1 + d1)), ToInt(Sub(id, 3 + d1, Len(id)))>>

\* Whether key a is strictly before key b.
CanonKeyLess(a, b) ==
  \/ a[1] < b[1]
  \/ a[1] = b[1] /\ a[2] < b[2]
  \/ a[1] = b[1] /\ a[2] = b[2] /\ a[3] < b[3]

\* Whether the canonical ids of table t appear in canonical order.
InCanonicalOrder(t) ==
  \A i, j \in 1..Len(t) :
    (i < j /\ STD_ID_PATTERN(t[i].id) /\ STD_ID_PATTERN(t[j].id)) =>
      ~CanonKeyLess(CanonKey(t[j].id), CanonKey(t[i].id))

\* C9: the rows of to_dataframe and of build_compare_table are ordered by
\* letter rank, then major number as an integer, then minor number as an
\* integer ("A2.10" after "A2.9").
C9_CanonicalOrder == InCanonicalOrder(sys_df) /\ InCanonicalOrder(cmp_df)

\* =========================================================== the review run

\* A checklist item as build_rfp_checklist's add(cat, code, text) stores it.
ChecklistItem(cat, code) == [category |-> cat, id |-> code, item |-> <<"t">> \o code]

\* An excerpt of build_rfp_checklist() in registration order: A1, B2, D2, D10.
build_rfp_checklist ==
  << ChecklistItem(<<"A">>, <<"A", "1">>),
     ChecklistItem(<<"B">>, <<"B", "2">>),
     ChecklistItem(<<"D">>, <<"D", "2">>),
     ChecklistItem(<<"D">>, <<"D", "1", "0">>) >>

\* group_items_by_ABCDE: one group with every item.
group_items_by_ABCDE(items) ==
  IF items # <<>> THEN << <<"ABCDE", items>> >> ELSE <<>>

\* group_items_by_AB_CDE: the items of A and B, then those of C, D, E and F.
group_items_by_AB_CDE(items) ==
  LET ab == SelectSeq(items, LAMBDA it : it.id # <<>> /\ it.id[1] \in {"A", "B"})
      cdef == SelectSeq(items, LAMBDA it : it.id # <<>> /\ it.id[1] \in {"C", "D", "E", "F"})
  IN  (IF ab # <<>> THEN << <<"AB", ab>> >> ELSE <<>>)
        \o (IF cdef # <<>> THEN << <<"CDEF", cdef>> >> ELSE <<>>)

\* The sort key of order_items_AB_C_D_E: (order_map.get(id[0], 9), id), the
\* id compared as a string.
OrderKeyLess(a, b) ==
  \/ LetterRank(a[1]) < LetterRank(b[1])
  \/ LetterRank(a[1]) = LetterRank(b[1]) /\ StrLess(a, b)

\* The sorted sequence s with item it inserted (stable).
InsertItem(s, it) ==
  LET later == {i \in 1..Len(s) : OrderKeyLess(it.id, s[i].id)}
      at == IF later = {} THEN Len(s) + 1 ELSE MinOf(later)
  IN  Sub(s, 1, at - 1) \o <<it>> \o Sub(s, at, Len(s))

RECURSIVE order_items_AB_C_D_E(_)
order_items_AB_C_D_E(items) ==
  IF items = <<>> THEN <<>>
  ELSE InsertItem(order_items_AB_C_D_E(Sub(items, 1, Len(items) - 1)), items[Len(items)])

\* An element of the array a judgment pass returns.  dict: whether it is a
\* JSON object; idkind: "str" (id holds the string), "list" (an unhashable
\* value) or "absent"; meta: whether the keys category and item are given.
\* An absent compliance or recommendation is the default '' and an absent
\* evidence the default [].
Element(dict, idkind, id, meta, compliance, evidence) ==
  [dict |-> dict, idkind |-> idkind, id |-> id, meta |-> meta,
   category |-> IF meta THEN <<"c">> ELSE <<>>,
   item |-> IF meta THEN <<"m">> ELSE <<>>,
   compliance |-> compliance, evidence |-> evidence,
   recommendation |-> <<>>]

\* The evidence as the prompt's output format shows it: one JSON object
\* {"file", "page", "quote"}, which iterates over its three keys.
EvidenceObject == [kind |-> "dict", elems |-> <<"str", "str", "str">>]

\* The elements a judgment pass over items may return.
ElementsFor(items) ==
  UNION { { Element(TRUE, "str", items[k].id, FALSE, S_OK, EvidenceList(<<"dict">>)),
            Element(TRUE, "str", items[k].id, TRUE, S_PART, EvidenceList(<<>>)),
            Element(TRUE, "str", items[k].id, FALSE, S_NONE, EvidenceObject) }
          : k \in 1..Len(items) }
    \cup { Element(FALSE, "absent", <<>>, FALSE, <<>>, EvidenceList(<<>>)),
           Element(TRUE, "str", <<"Z", "9">>, FALSE, S_OK, EvidenceList(<<>>)),
           Element(TRUE, "list", <<>>, FALSE, S_OK, EvidenceList(<<>>)) }

\* Greatest number of elements of the array a judgment pass returns.
MaxResp == 2

\* What model.generate_content(prompt) does: kind "error" (the call or
\* resp.text raises), "invalid" (text json.loads rejects), "scalar" (a JSON
\* string, number or null), "dict" (one JSON object) or "list".
Responses(items) ==
  { [kind |-> k, elems |-> <<>>] : k \in {"error", "invalid", "scalar"} }
    \cup { [kind |-> "dict", elems |-> <<e>>] : e \in {x \in ElementsFor(items) : x.dict} }
    \cup UNION { { [kind |-> "list", elems |-> f] : f \in [1..n -> ElementsFor(items)] }
                 : n \in 0..MaxResp }

\* The try block around generate_content and parse_json_array: arr is []
\* when either raises; parse_json_array wraps one object into a list.  The
\* value is the sequence that "for d in arr if isinstance(arr, list) else []"
\* iterates.
ParsedArr(resp) ==
  IF resp.kind \in {"error", "invalid", "scalar"} THEN <<>> ELSE resp.elems

\* The default record of a checklist item: not-mentioned, no evidence.
DefaultRecord(it) ==
  Result(it.id, it.category, it.item, S_NONE, EvidenceList(<<>>), <<>>)

\* The record main keeps for a returned object d of checklist item it.
AdoptRecord(d, it) ==
  Result(d.id,
         IF d.meta THEN d.category ELSE it.category,
         IF d.meta THEN d.item ELSE it.item,
         d.compliance, d.evidence, d.recommendation)

\* The checklist item of items with the given id.
MetaOf(items, id) == items[MinOf({k \in 1..Len(items) : items[k].id = id})]

\* allowed_ids
AllowedIds(items) == {items[k].id : k \in 1..Len(items)}

\* Whether the batch loop raises: "rid not in allowed_ids" on an unhashable id.
BatchRaises(a) == \E i \in 1..Len(a) : a[i].dict /\ a[i].idkind = "list"

\* The list normalized of the batch branch: every returned object whose id
\* is allowed, in the order returned, then the default record of every item
\* whose id was not returned.
BatchNormalized(a, items) ==
  LET kept == SelectSeq(a, LAMBDA d : d.dict /\ d.idkind = "str" /\ d.id \in AllowedIds(items))
      adopted == [i \in 1..Len(kept) |-> AdoptRecord(kept[i], MetaOf(items, kept[i].id))]
      returned_ids == {kept[i].id : i \in 1..Len(kept)}
      missing == SelectSeq(items, LAMBDA it : it.id \notin returned_ids)
  IN  adopted \o [i \in 1..Len(missing) |-> DefaultRecord(missing[i])]

\* The record picked of the per-item branch: the first returned object with
\* the item's id, completed by setdefault, else the default record.
ItemPicked(a, it) ==
  LET hit == {i \in 1..Len(a) : a[i].dict /\ a[i].idkind = "str" /\ a[i].id = it.id}
  IN  IF hit = {} THEN DefaultRecord(it) ELSE AdoptRecord(a[MinOf(hit)], it)

Modes == {"one", "batch", "item"}

Init ==
  /\ pc = "start"
  /\ mode = ""
  /\ groups = <<>>
  /\ items_ordered = <<>>
  /\ bi = 1
  /\ arr = <<>>
  /\ cur_items = <<>>
  /\ normalized = <<>>
  /\ all_results = <<>>
  /\ df = <<>>
  /\ CompareIdle
  /\ FunIdle

\* The start button: the mode chosen decides the groups (or the item order).
StartReview ==
  /\ pc = "start"
  /\ \E m \in Modes :
       /\ mode' = m
       /\ groups' = IF m = "one" THEN group_items_by_ABCDE(build_rfp_checklist)
                    ELSE IF m = "batch" THEN group_items_by_AB_CDE(build_rfp_checklist)
                    ELSE <<>>
       /\ items_ordered' = IF m = "item" THEN order_items_AB_C_D_E(build_rfp_checklist)
                           ELSE <<>>
  /\ pc' = "judging"
  /\ UNCHANGED <<bi, arr, cur_items, normalized, all_results, df, cvars, fvars>>

\* One iteration of "for bi, (code, items) in enumerate(groups)".
JudgeBatch ==
  /\ pc = "judging"
  /\ mode \in {"one", "batch"}
  /\ bi <= Len(groups)
  /\ \E resp \in Responses(groups[bi][2]) :
       LET items == groups[bi][2]
           a == ParsedArr(resp)
       IN  /\ arr' = a
           /\ cur_items' = items
           /\ IF BatchRaises(a)
              THEN /\ pc' = "aborted"
                   /\ UNCHANGED <<normalized, all_results, bi>>
              ELSE /\ normalized' = BatchNormalized(a, items)
                   /\ all_results' = all_results \o BatchNormalized(a, items)
                   /\ bi' = bi + 1
                   /\ pc' = "judging"
  /\ UNCHANGED <<mode, groups, items_ordered, df, cvars, fvars>>

\* One iteration of "for i, it in enumerate(items_ordered)".
JudgeItem ==
  /\ pc = "judging"
  /\ mode = "item"
  /\ bi <= Len(items_ordered)
  /\ \E resp \in Responses(<<items_ordered[bi]>>) :
       LET it == items_ordered[bi]
           a == ParsedArr(resp)
       IN  /\ arr' = a
           /\ cur_items' = <<it>>
           /\ normalized' = <<ItemPicked(a, it)>>
           /\ all_results' = Append(all_results, ItemPicked(a, it))
  /\ bi' = bi + 1
  /\ UNCHANGED <<pc, mode, groups, items_ordered, df, cvars, fvars>>

\* df = to_dataframe(all_results), after the last judgment pass.
AssembleTable ==
  /\ pc = "judging"
  /\ bi > (IF mode = "item" THEN Len(items_ordered) ELSE Len(groups))
  /\ IF to_dataframe_raises(all_results)
     THEN pc' = "aborted" /\ df' = df
     ELSE pc' = "done" /\ df' = to_dataframe(all_results)
  /\ UNCHANGED <<mode, groups, items_ordered, bi, arr, cur_items, normalized,
                 all_results, cvars, fvars>>

Next == StartReview \/ JudgeBatch \/ JudgeItem \/ AssembleTable

Spec == Init /\ [][Next]_vars

\* ------------------------------------------------ claims on the review run

\* The elements of the last response that are objects carrying the given id.
ReturnedFor(id) ==
  {i \in 1..Len(arr) : arr[i].dict /\ arr[i].idkind = "str" /\ arr[i].id = id}

\* C1: after every judgment pass (batch or per-item) the aggregated list
\* holds exactly one record per checklist item of the group, whatever the
\* response was, and for an id returned several times the record kept is the
\* first one returned.
C1_OneRecordPerItem ==
  (pc \in {"judging", "done"} /\ cur_items # <<>>) =>
    /\ Len(normalized) = Len(cur_items)
    /\ \A k \in 1..Len(cur_items) :
         /\ Cardinality({i \in 1..Len(normalized) : normalized[i].id = cur_items[k].id}) = 1
         /\ ReturnedFor(cur_items[k].id) # {} =>
              \A i \in 1..Len(normalized) :
                normalized[i].id = cur_items[k].id =>
                  /\ normalized[i].compliance = arr[MinOf(ReturnedFor(cur_items[k].id))].compliance
                  /\ normalized[i].evidence = arr[MinOf(ReturnedFor(cur_items[k].id))].evidence

\* C10: a started review run never aborts, whatever a judgment pass
\* returns, and its result table has one row per checklist item.
C10_RunAlwaysCompletes ==
  /\ pc # "aborted"
  /\ pc = "done" =>
       \A k \in 1..Len(build_rfp_checklist) :
         Cardinality({i \in 1..Len(df) : df[i].id = build_rfp_checklist[k].id}) = 1

\* ============================================ calls of the pure functions

\* ------------------------------------------------- normalize_status_equiv

\* Characters of the labels the normalizer is called with: letters of the
\* synonyms in both cases, the slash, a space.
LabelChars == {"o", "K", "n", "a", "/", "p", "s", " "}

\* Greatest length of a label built from LabelChars.
MaxLabelLen == 4

\* Labels written in CJK characters: the four status labels, the synonym
\* U901A U904E (passed), "U7B26 U5408" with a space inside and with a tab
\* after it, non-compliant (U4E0D U7B26 U5408) and needs-supplement.
FixedLabels ==
  { S_OK, S_NA, S_NONE, S_PART,
    <<"U901A", "U904E">>,
    <<"U7B26", " ", "U5408">>,
    <<"U7B26", "U5408", "\t">>,
    <<"U4E0D", "U7B26", "U5408">>,
    <<"U9700", "U88DC", "U4EF6">> }

\* The labels normalize_status_equiv is called with.
Labels ==
  UNION {[1..n -> LabelChars] : n \in 0..MaxLabelLen} \cup FixedLabels \cup {None}

\* The three values normalize_status_equiv may return.
ThreeStates == {S_OK, S_NA, S_NONE}

NormalizeInit ==
  /\ fpc = "label"
  /\ in_label \in Labels
  /\ in_raw_id = <<>>
  /\ in_item = <<>>
  /\ ret = <<>>
  /\ ret2 = <<>>
  /\ CompareIdle
  /\ MainIdle

\* ret = normalize_status_equiv(in_label)
HNormalize ==
  /\ fpc = "label"
  /\ ret' = normalize_status_equiv(in_label)
  /\ fpc' = "normalized"
  /\ UNCHANGED <<in_label, in_raw_id, in_item, ret2, cvars, mvars>>

NormalizeNext == HNormalize

SpecNormalize == NormalizeInit /\ [][NormalizeNext]_vars

\* C11 as stated: the value returned is one of the three states, and it is
\* the compliant state only when the label, trimmed at both ends and
\* lower-cased, is one of the compliant synonyms.
C11_TrimmedSynonymOnly ==
  fpc = "normalized" =>
    /\ ret \in ThreeStates
    /\ ret = S_OK => (in_label # None /\ Lower(Strip(in_label)) \in CompliantSynonyms)

\* C11 amended: the value returned is one of the three states, and it is the
\* compliant state only when the label, with every whitespace character
\* removed (inside the label too) and lower-cased, is one of the compliant
\* synonyms; None, empty, whitespace-only and unrecognized labels give the
\* not-mentioned state.
C11_TotalThreeStates ==
  fpc = "normalized" =>
    /\ ret \in ThreeStates
    /\ ret = S_OK =>
         /\ in_label # None
         /\ \E syn \in CompliantSynonyms :
              /\ Len(SelectSeq(in_label, LAMBDA c : c \notin WS)) = Len(syn)
              /\ \A i \in 1..Len(syn) :
                   LowerChar(SelectSeq(in_label, LAMBDA c : c \notin WS)[i]) = syn[i]
    /\ (in_label = None \/ \A i \in 1..Len(in_label) : in_label[i] \in WS) => ret = S_NONE

\* An unrecognized label that contains the compliant label (non-compliant)
\* was normalized to not-mentioned.
C11_Witness ==
  /\ fpc = "normalized"
  /\ in_label = <<"U4E0D", "U7B26", "U5408">>
  /\ ret = S_NONE

\* ---------------------------------------------------------- compute_std_id

\* Section titles of SECTION_TO_LETTER: security (C) and operations (D).
SEC_C == SECTION_TO_LETTER[3][1]

SEC_D == SECTION_TO_LETTER[4][1]

\* The raw ids compute_std_id is called with: empty, canonical ones, a
\* canonical one inside whitespace, a section title with a hyphen and a
\* number (with and without a space), ids that are not canonical and name no
\* section.
RawIds ==
  { <<>>,
    <<"A", "1">>,
    <<"D", "2", ".", "1", "0">>,
    <<" ", "A", "1", " ">>,
    SEC_B \o <<"-", "3">>,
    SEC_B \o <<"-", " ", "3">>,
    SEC_D \o <<" ", "7">>,
    <<"D", "1", "0", ")">>,
    <<"B", "-", "1", ".">>,
    <<"A", "1", ".">>,
    <<"Z", "1">>,
    <<"(", "4", ")">> }

\* The item texts compute_std_id is called with: without a section, a
\* section title with a number with and without punctuation after it, with
\* a parenthesized number, with two numbers, an ordinal followed by U3001 or
\* by a space, two section titles.
ItemTexts ==
  { <<>>,
    <<"x">>,
    SEC_B \o <<" ", "1">>,
    SEC_B \o <<" ", "1", ".">>,
    SEC_B \o <<" ", "(", "2", ")">>,
    SEC_C \o <<" ", "1", ".", "(", "2", ")">>,
    SEC_B \o <<" ", "1", "2", " ", "3", ".">>,
    <<"U4E8C", "U3001", " ", "5", " ", "7", "UFF0E">>,
    <<"U4E09", " ", "4", ")">>,
    <<"U4E09", "4", ")">>,
    SEC_D \o <<"6", " ", "U3001">>,
    SEC_C \o SEC_B \o <<" ", "2", ".">> }

StdIdInit ==
  /\ fpc = "ids"
  /\ in_label = <<>>
  /\ in_raw_id \in RawIds
  /\ in_item \in ItemTexts
  /\ ret = <<>>
  /\ ret2 = <<>>
  /\ CompareIdle
  /\ MainIdle

\* ret = compute_std_id(in_raw_id, in_item)
HComputeStdId ==
  /\ fpc = "ids"
  /\ ret' = compute_std_id(in_raw_id, in_item)
  /\ fpc' = "computed"
  /\ UNCHANGED <<in_label, in_raw_id, in_item, ret2, cvars, mvars>>

\* ret2 = compute_std_id(ret, in_item): the call repeated on its own result.
HComputeAgain ==
  /\ fpc = "computed"
  /\ ret2' = compute_std_id(ret, in_item)
  /\ fpc' = "again"
  /\ UNCHANGED <<in_label, in_raw_id, in_item, ret, cvars, mvars>>

StdIdNext == HComputeStdId \/ HComputeAgain

SpecStdId == StdIdInit /\ [][StdIdNext]_vars

\* Whether s is a canonical id: a letter A..F, digits, optionally "." and
\* digits.
IsCanonicalId(s) ==
  /\ Len(s) >= 2
  /\ s[1] \in Letters
  /\ \E d \in 1..(Len(s) - 1) :
       /\ \A i \in 2..(1 + d) : s[i] \in Digits
       /\ \/ 1 + d = Len(s)
          \/ /\ 3 + d <= Len(s)
             /\ s[2 + d] = "."
             /\ \A i \in (3 + d)..Len(s) : s[i] \in Digits

\* C12: for a raw_id that is canonical the call returns raw_id unchanged,
\* whatever the item text holds, and the call repeated on a non-empty result
\* returns that result.
C12_CanonicalPassThrough ==
  /\ (fpc \in {"computed", "again"} /\ IsCanonicalId(in_raw_id)) => ret = in_raw_id
  /\ (fpc = "again" /\ ret # <<>>) => ret2 = ret

\* A canonical raw_id was returned unchanged although the item text names
\* another section and number, and the call on the result returned it again.
C12_Witness ==
  /\ fpc = "again"
  /\ in_raw_id = <<"A", "1">>
  /\ in_item = SEC_C \o <<" ", "1", ".", "(", "2", ")">>
  /\ ret = <<"A", "1">>
  /\ ret2 = ret

\* ------------------------------------- claims on the ids of precheck rows

\* C13: the id precheck_rows_to_df puts in the number column of every
\* precheck row, which build_compare_table looks up, is empty or canonical,
\* whatever raw_id and std_id the extraction supplied.
C13_CanonicalIdColumn ==
  cpc \in {"pre", "done"} =>
    \A k \in 1..Len(pre_df) : pre_df[k].id = <<>> \/ IsCanonicalId(pre_df[k].id)

\* The query C14 states for the fuzzy match of a precheck row: the canonical
\* id when it is not empty, else the raw_id when it is not empty, else the
\* item text.
ClaimedFuzzyQuery(prow) ==
  IF Strip(prow.id) # <<>> THEN Strip(prow.id)
  ELSE IF prow.raw_id # <<>> THEN prow.raw_id
  ELSE prow.item

\* C14: when exact lookup fails for a precheck row, the row is matched to
\* the best candidate of the fuzzy match of the query (canonical id, else
\* raw_id, else item text) against all system ids when its ratio is
\* accepted, and is extra-in-precheck otherwise.
C14_FuzzyQueryFallback ==
  cpc = "done" =>
    \A k \in 1..Len(pre_df) :
      ExactLookupFails(pre_df[k]) =>
        LET best == fuzzy_match(SysKeys(sys_df), ClaimedFuzzyQuery(pre_df[k]))
        IN  \A i \in PrecheckRowsOf(pre_df[k]) :
              IF AcceptRatio(best[2]) /\ best[1] # <<>>
              THEN IsMatchedRow(cmp_df[i]) /\ cmp_df[i].id = best[1]
              ELSE cmp_df[i].diff = DIFF_PRE_EXTRA

\* ------------------------------------------- claims on compute_std_id

\* The section letter compute_std_id infers for its arguments ("" for none).
SecLetterOf(raw_id, item) ==
  LET src == Strip(raw_id \o <<" ">> \o item)
  IN  IF SectionLetter(src) # "" THEN SectionLetter(src) ELSE RomanLetter(src)

\* The digits immediately after the leftmost hyphen of raw_id that has a
\* digit after it, <<>> when there is none.
NumberAfterHyphen(raw_id) ==
  LET hit == {i \in 1..(Len(raw_id) - 1) : raw_id[i] = "-" /\ raw_id[i + 1] \in Digits}
  IN  IF hit = {} THEN <<>>
      ELSE Sub(raw_id, MinOf(hit) + 1, MinOf(hit) + DigitRun(raw_id, MinOf(hit) + 1))

\* Whether the maximal run of digits of src that starts at i is the
\* parenthesized number "(digits)".
IsParenthesized(src, i) ==
  /\ i > 1 /\ src[i - 1] = "("
  /\ i + DigitRun(src, i) <= Len(src)
  /\ src[i + DigitRun(src, i)] = ")"

\* The leftmost standalone integer of src (a maximal run of digits),
\* followed by punctuation or not, the parenthesized number not counted;
\* <<>> when there is none.
FirstInteger(src) ==
  LET hit == {i \in 1..Len(src) :
                /\ src[i] \in Digits
                /\ (i = 1 \/ src[i - 1] \notin Digits)
                /\ ~IsParenthesized(src, i)}
  IN  IF hit = {} THEN <<>>
      ELSE Sub(src, MinOf(hit), MinOf(hit) + DigitRun(src, MinOf(hit)) - 1)

\* The major number C15 states: the number after a hyphen of raw_id, else
\* the first integer of the combined text.
ClaimedMajor(raw_id, item) ==
  IF NumberAfterHyphen(raw_id) # <<>> THEN NumberAfterHyphen(raw_id)
  ELSE FirstInteger(Strip(raw_id \o <<" ">> \o item))

\* C15: for a raw_id that is not canonical and arguments that name a
\* section, the result carries as major number the number after a hyphen of
\* raw_id when there is one, else the leftmost integer of the combined text
\* whether or not punctuation follows it; without such a number the result
\* is empty.
C15_MajorNumber ==
  (/\ fpc \in {"computed", "again"}
   /\ ~IsCanonicalId(Strip(in_raw_id))
   /\ SecLetterOf(in_raw_id, in_item) # "") =>
    LET major == ClaimedMajor(in_raw_id, in_item)
        head == <<SecLetterOf(in_raw_id, in_item)>> \o major
    IN  IF major = <<>> THEN ret = <<>>
        ELSE /\ Len(ret) >= Len(head)
             /\ Sub(ret, 1, Len(head)) = head
             /\ (Len(ret) = Len(head) \/ ret[Len(head) + 1] = ".")

\* C17: the result is empty or canonical; for a raw_id that is not canonical
\* (after trimming) it is not empty exactly when a section letter and a
\* major number were found, and is then the letter, the major number and,
\* exactly when a parenthesized number was found, "." and that number.
C17_EmptyOrCanonical ==
  fpc \in {"computed", "again"} =>
    /\ ret = <<>> \/ IsCanonicalId(ret)
    /\ ~IsCanonicalId(Strip(in_raw_id)) =>
         LET src == Strip(in_raw_id \o <<" ">> \o in_item)
             letter == SecLetterOf(in_raw_id, in_item)
             major == IF SearchHyphenNumber(in_raw_id) # <<>>
                      THEN SearchHyphenNumber(in_raw_id) ELSE SearchMainNumber(src)
             minor == SearchSubNumber(src)
         IN  /\ (ret # <<>>) <=> (letter # "" /\ major # <<>>)
             /\ (ret # <<>> /\ minor = <<>>) => ret = <<letter>> \o major
             /\ (ret # <<>> /\ minor # <<>>) => ret = <<letter>> \o major \o <<".">> \o minor

\* C17 witness: for a raw_id that is not canonical, with a section title and
\* a hyphen number, and an item text with a parenthesized number, the call
\* returned letter, major, "." and minor.
C17_Witness ==
  /\ fpc = "computed"
  /\ in_raw_id = SEC_B \o <<"-", "3">>
  /\ in_item = SEC_C \o <<" ", "1", ".", "(", "2", ")">>
  /\ ret = <<"B", "3", ".", "2">>

\* --------------------------------------- claims on the per-item review mode

\* C16: in per-item mode the items are ordered by letter rank, major number
\* as an integer and minor number as an integer, which is the registry
\* order (D2 before D10), and the judgment passes are issued in that order.
C16_PerItemCanonicalOrder ==
  mode = "item" =>
    /\ items_ordered = build_rfp_checklist
    /\ \A i, j \in 1..Len(items_ordered) :
         i < j => ~CanonKeyLess(CanonKey(items_ordered[j].id), CanonKey(items_ordered[i].id))
    /\ \A k \in 1..Len(all_results) : all_results[k].id = build_rfp_checklist[k].id

====
